---- MODULE Spec2Model ----
(***************************************************************************)
(* Inventory ML API (src/main.py): the moving-average forecaster, the      *)
(* trend classifier, the reorder calculator and the /forecast_and_reorder  *)
(* request handler with its forecast_log table.                            *)
(*                                                                         *)
(* Three specifications share the module:                                  *)
(*   SpecFcst  applies _moving_average_fcst and _trend to sales series;     *)
(*   SpecCalc  applies _reorder_calc to its five integer arguments;         *)
(*   Spec      serves forecast_and_reorder requests against a database.     *)
(* A nullable column is a sequence: <<>> is SQL NULL / Python None, <<v>>   *)
(* is the value v.                                                         *)
(***************************************************************************)
EXTENDS Integers, Sequences, FiniteSets, TLC

VARIABLES
    fsales,        \* SpecFcst: the sales series handed to the forecaster
    fout,          \* SpecFcst: what the forecaster returned for fsales
    cargs,         \* SpecCalc: the arguments handed to _reorder_calc
    cout,          \* SpecCalc: what _reorder_calc returned for cargs
    sweep,         \* SpecCalc: action changes seen while stock rose from 0
    products,      \* Spec: the products table, one row per id
    sales,         \* Spec: the sales table, per product id, oldest first
    forecast_log,  \* Spec: the forecast_log table, in insertion order
    last           \* Spec: the outcome of the latest request

vars == <<fsales, fout, cargs, cout, sweep, products, sales, forecast_log, last>>

-----------------------------------------------------------------------------
(* Bounds of the model *)

MaxLen == 4        \* longest sales series handed to the forecaster
MaxQty == 8        \* largest weekly sales quantity
NegSpan == 1       \* integer arguments and columns go down to -NegSpan
MaxStock == 4      \* largest stock_on_hand
MaxFcst == 3       \* largest weekly_fcst handed to _reorder_calc directly
MaxLead == 18      \* largest lead_time_days handed to _reorder_calc directly
MaxMoq == 3        \* largest moq
MaxSafety == 2     \* largest safety_stock
DbMaxStock == 2    \* largest stock_on_hand stored for the product
DbMaxQty == 2      \* largest qty in the product's sales rows
DbMaxLen == 1      \* most sales rows of the product (two longer histories aside)
MaxLog == 2        \* forecast_log rows written before the model stops

-----------------------------------------------------------------------------
(* Helpers *)

Max(a, b) == IF a >= b THEN a ELSE b
Min(a, b) == IF a <= b THEN a ELSE b

RECURSIVE Sum(_)
Sum(s) == IF s = <<>> THEN 0 ELSE Head(s) + Sum(Tail(s))

\* Python s[-n:] for n >= 1: the last n elements, the whole list when shorter
LastN(s, n) == SubSeq(s, Max(1, Len(s) - n + 1), Len(s))

RECURSIVE SeqsUpTo(_, _)
SeqsUpTo(S, n) ==
    IF n = 0 THEN {<<>>}
    ELSE LET shorter == SeqsUpTo(S, n - 1)
         IN  shorter \cup {Append(s, x) : s \in {t \in shorter : Len(t) = n - 1}, x \in S}

-----------------------------------------------------------------------------
(* The forecaster: src/main.py lines 51-60 *)

K == 3             \* k: the forecast window

\* e with 2^e <= 5.5*m < 2^(e+1): the binary exponent of the double 5.5*m
FloatExp(m) == CHOOSE e \in 0..24 : 2^(e+1) <= 11 * m /\ 11 * m < 2^(e+2)

\* The same product truncated toward zero instead of rounded
TruncBuffered(total, w) == (11 * total) \div (10 * w)

\* int(round((total / w) * (1 + 0.10))) for a non-negative integer total and
\* w in 1..3, in IEEE-754 double arithmetic.  The exact product is
\* 11*total/(10*w).  Off a half-integer the doubles round as the exact value
\* does.  The exact product is a half-integer only when total/w = 5*m with m
\* odd; the double 1.1 exceeds 11/10 by 0.4*2^-52, so the double product is
\* the half-integer itself when 4*m <= 2^FloatExp(m) (round() then goes to
\* the even neighbour) and lies just above it otherwise (round() goes up).
RoundBuffered(total, w) ==
    LET num == 11 * total
        den == 10 * w
        fl  == num \div den
        r2  == 2 * (num - fl * den)
        m   == total \div (5 * w)
    IN  IF r2 < den THEN fl
        ELSE IF r2 > den THEN fl + 1
        ELSE IF 4 * m <= 2^FloatExp(m)
             THEN (IF fl % 2 = 0 THEN fl ELSE fl + 1)
             ELSE fl + 1

\* _moving_average_fcst(sales, k=3, buffer=0.10)
_moving_average_fcst(s) ==
    IF Len(s) = 0 THEN 0
    ELSE RoundBuffered(Sum(LastN(s, K)), Min(K, Len(s)))

TrendLastOnly(s) ==
    IF Len(s) < 2 THEN "stable"
    ELSE IF s[Len(s)] > s[1] THEN "increasing"
    ELSE IF s[Len(s)] < s[1] THEN "declining"
    ELSE "stable"

\* _trend(sales)
_trend(s) ==
    IF Len(s) < 2 THEN "stable"
    ELSE IF s[Len(s)] > s[Len(s) - 1] THEN "increasing"
    ELSE IF s[Len(s)] < s[Len(s) - 1] THEN "declining"
    ELSE "stable"

-----------------------------------------------------------------------------
(* The reorder calculator: src/main.py lines 62-69 *)

\* round(d / 7) for an integer d: d/7 is never halfway between two integers,
\* so the nearest integer is floor((2*d + 7) / 14) whatever the tie rule
RoundWeeks(d) == (2 * d + 7) \div 14

LeadWeeksNoFloor(d) == RoundWeeks(d)

\* lead_weeks = max(1, round(lead_time_days / 7))
LeadWeeks(d) == Max(1, RoundWeeks(d))

\* reorder_point = weekly_fcst * lead_weeks + safety_stock
ReorderPoint(fcst, lead, ss) == fcst * LeadWeeks(lead) + ss

ReorderCalcNoMoq(stock, fcst, lead, moq, ss) ==
    LET reorder_point == ReorderPoint(fcst, lead, ss)
    IN  IF stock < reorder_point
        THEN [action |-> "reorder", qty |-> reorder_point - stock]
        ELSE [action |-> "do_nothing", qty |-> 0]

ReorderCalcInclusive(stock, fcst, lead, moq, ss) ==
    LET reorder_point == ReorderPoint(fcst, lead, ss)
    IN  IF stock <= reorder_point
        THEN [action |-> "reorder", qty |-> Max(moq, reorder_point - stock)]
        ELSE [action |-> "do_nothing", qty |-> 0]

ReorderCalcGapReversed(stock, fcst, lead, moq, ss) ==
    LET reorder_point == ReorderPoint(fcst, lead, ss)
    IN  IF stock < reorder_point
        THEN [action |-> "reorder", qty |-> Max(moq, stock - reorder_point)]
        ELSE [action |-> "do_nothing", qty |-> 0]

\* _reorder_calc(stock_on_hand, weekly_fcst, lead_time_days, moq, safety_stock)
_reorder_calc(stock, fcst, lead, moq, ss) ==
    LET reorder_point == ReorderPoint(fcst, lead, ss)
    IN  IF stock < reorder_point
        THEN LET gap == reorder_point - stock
             IN  [action |-> "reorder", qty |-> Max(moq, gap)]
        ELSE [action |-> "do_nothing", qty |-> 0]

-----------------------------------------------------------------------------
(* Applying the forecaster to sales series *)

NoForecast == [set |-> FALSE, next_week |-> 0, trend |-> "none"]

\* What lines 82-83 compute from one series
Forecast(s) == [set |-> TRUE, next_week |-> _moving_average_fcst(s), trend |-> _trend(s)]

NoCalc == [set |-> FALSE, action |-> "none", qty |-> 0]
NoArgs == [stock |-> 0, fcst |-> 0, lead |-> 0, moq |-> 0, ss |-> 0]
NoSweep == [start |-> 0, flips |-> 0]
NoResp == [product_id |-> 0, product_name |-> "", next_week |-> 0, trend |-> "none",
           action |-> "none", reorder_qty |-> 0, confidence |-> 0]
NoRequest == [status |-> 0, resp |-> NoResp]

FcstIdle == fsales = <<>> /\ fout = NoForecast
CalcIdle == cargs = NoArgs /\ cout = NoCalc /\ sweep = NoSweep
ApiIdle == products = <<>> /\ sales = <<>> /\ forecast_log = <<>> /\ last = NoRequest

InitFcst ==
    /\ fsales \in SeqsUpTo(0..MaxQty, MaxLen)
    /\ fout = NoForecast
    /\ CalcIdle
    /\ ApiIdle

\* The forecaster is called on the series
ForecastCall ==
    /\ ~fout.set
    /\ fout' = Forecast(fsales)
    /\ UNCHANGED <<fsales, cargs, cout, sweep, products, sales, forecast_log, last>>

\* The forecaster is called again on a series with one more, older, week in front
OlderHistory ==
    /\ fout.set
    /\ Len(fsales) < MaxLen
    /\ \E q \in 0..MaxQty :
          /\ fsales' = <<q>> \o fsales
          /\ fout' = Forecast(fsales')
    /\ UNCHANGED <<cargs, cout, sweep, products, sales, forecast_log, last>>

NextFcst == ForecastCall \/ OlderHistory

SpecFcst == InitFcst /\ [][NextFcst]_vars

-----------------------------------------------------------------------------
(* Applying the reorder calculator to its arguments *)

Calc(a) ==
    LET r == _reorder_calc(a.stock, a.fcst, a.lead, a.moq, a.ss)
    IN  [set |-> TRUE, action |-> r.action, qty |-> r.qty]

InitCalc ==
    /\ cargs \in [stock : -NegSpan..MaxStock, fcst : -NegSpan..MaxFcst,
                   lead : -NegSpan..MaxLead, moq : -NegSpan..MaxMoq,
                   ss : -NegSpan..MaxSafety]
    /\ cout = NoCalc
    /\ sweep = NoSweep
    /\ FcstIdle
    /\ ApiIdle

\* _reorder_calc is called on the arguments
CalcCall ==
    /\ ~cout.set
    /\ cout' = Calc(cargs)
    /\ sweep' = [start |-> cargs.stock, flips |-> 0]
    /\ UNCHANGED <<cargs, fsales, fout, products, sales, forecast_log, last>>

\* _reorder_calc is called again with more stock and all else as before
RaiseStock ==
    /\ cout.set
    /\ \E b \in (cargs.stock + 1)..MaxStock :
          /\ cargs' = [cargs EXCEPT !.stock = b]
          /\ cout' = Calc(cargs')
          /\ sweep' = [sweep EXCEPT !.flips =
                          IF cout'.action # cout.action THEN @ + 1 ELSE @]
    /\ UNCHANGED <<fsales, fout, products, sales, forecast_log, last>>

NextCalc == CalcCall \/ RaiseStock

SpecCalc == InitCalc /\ [][NextCalc]_vars

-----------------------------------------------------------------------------
(* The request handler and its database: src/main.py lines 31-49, 71-107 *)

Weeks == 8                  \* weeks: the sales rows _get_recent_sales reads
DefaultLeadTimeDays == 7    \* prod["lead_time_days"] or 7
DefaultMoq == 0             \* prod["moq"] or 0
DefaultSafetyStock == 0     \* prod["safety_stock"] or 0
Confidence == 90            \* confidence=0.90, in hundredths

\* The stored product: id 1, active.  Product 2 is stored but inactive; no
\* other id is stored.  stock_on_hand, id and name are NOT NULL columns (the
\* handler uses them without a default); the other three are nullable.
Nullable(S) == {<<>>} \cup {<<v>> : v \in S}
DbLeadDays == {-1, 0, 4, 7, 11}
DbMoqs == {-1, 0, 2}
DbSafetyStocks == {-1, 0, 1}
LongHistory == <<2, 2, 2, 2, 2, 2, 0, 1, 2>>
DbSeries == SeqsUpTo(0..DbMaxQty, DbMaxLen) \cup {LongHistory, <<2, 1>>}
ProductIds == {1, 2}
InactiveRow == [name |-> "Gadget", active |-> FALSE, stock_on_hand |-> 0,
                lead_time_days |-> <<14>>, moq |-> <<>>, safety_stock |-> <<>>]
InactiveSales == <<2, 2>>

\* SQL lower() on the names in play
Lower(n) ==
    CASE n \in {"Widget", "WIDGET", "widget"} -> "widget"
      [] n \in {"Gadget", "gadget"} -> "gadget"
      [] OTHER -> n

\* The request payloads: RequestById, both fields optional
Payloads == [product_id : Nullable({0, 1, 2}),
             product_name : Nullable({"", "WIDGET", "gadget"})]

\* Python truth of an Optional[int] and of an Optional[str]
TruthyInt(x) == x # <<>> /\ x[1] # 0
TruthyStr(x) == x # <<>> /\ x[1] # ""

\* Python `x or d`
OrDefault(x, d) == IF TruthyInt(x) THEN x[1] ELSE d

\* _get_product: the set of ids matched (empty: row is None).  Ids and
\* lower-cased names are unique here, so .first() has at most one row to take.
_get_product(product_id, product_name) ==
    IF product_id # <<>>
    THEN {i \in ProductIds : i = product_id[1] /\ products[i].active}
    ELSE {i \in ProductIds : /\ product_name # <<>>
                              /\ Lower(products[i].name) = Lower(product_name[1])
                              /\ products[i].active}

GetRecentSalesAnyProduct(pid, weeks) == LastN(sales[1] \o sales[2], weeks)

\* _get_recent_sales: the latest `weeks` rows of the product, oldest first
_get_recent_sales(pid, weeks) == LastN(sales[pid], weeks)

CalcArgsSwapped(prod, fcst) ==
    [stock |-> prod.stock_on_hand,
     fcst  |-> fcst,
     lead  |-> OrDefault(prod.lead_time_days, DefaultLeadTimeDays),
     moq   |-> OrDefault(prod.safety_stock, DefaultSafetyStock),
     ss    |-> OrDefault(prod.moq, DefaultMoq)]

\* lines 85-89: the arguments the handler hands to _reorder_calc
CalcArgs(prod, fcst) ==
    [stock |-> prod.stock_on_hand,
     fcst  |-> fcst,
     lead  |-> OrDefault(prod.lead_time_days, DefaultLeadTimeDays),
     moq   |-> OrDefault(prod.moq, DefaultMoq),
     ss    |-> OrDefault(prod.safety_stock, DefaultSafetyStock)]

\* lines 91-99: the MLResponse built from the product row and the two results
MLResponse(pid, prod, f, c) ==
    [product_id |-> pid, product_name |-> prod.name, next_week |-> f.next_week,
     trend |-> f.trend, action |-> c.action, reorder_qty |-> c.qty,
     confidence |-> Confidence]

LogRowNoQty(resp) ==
    [product_id |-> resp.product_id, next_week |-> resp.next_week, trend |-> resp.trend,
     action |-> resp.action, reorder_qty |-> 0, confidence |-> resp.confidence]

\* lines 102-105: the row inserted into forecast_log
LogRow(resp) ==
    [product_id |-> resp.product_id, next_week |-> resp.next_week, trend |-> resp.trend,
     action |-> resp.action, reorder_qty |-> resp.reorder_qty,
     confidence |-> resp.confidence]

InitApi ==
    /\ \E stock \in -NegSpan..DbMaxStock, lead \in Nullable(DbLeadDays),
          moq \in Nullable(DbMoqs), ss \in Nullable(DbSafetyStocks) :
          products = <<[name |-> "Widget", active |-> TRUE, stock_on_hand |-> stock,
                        lead_time_days |-> lead, moq |-> moq, safety_stock |-> ss],
                       InactiveRow>>
    /\ \E s \in DbSeries : sales = <<s, InactiveSales>>
    /\ forecast_log = <<>>
    /\ last = NoRequest
    /\ FcstIdle
    /\ CalcIdle

\* POST /forecast_and_reorder, from the request to the response or the error.
\* fsales/fout and cargs/cout record the forecaster call and the
\* _reorder_calc call this request made, if it made them.
forecast_and_reorder(payload) ==
    /\ Len(forecast_log) < MaxLog
    /\ IF ~TruthyInt(payload.product_id) /\ ~TruthyStr(payload.product_name)
       THEN /\ last' = [status |-> 400, resp |-> NoResp]
            /\ fsales' = <<>> /\ fout' = NoForecast
            /\ cargs' = NoArgs /\ cout' = NoCalc
            /\ UNCHANGED forecast_log
       ELSE LET found == _get_product(payload.product_id, payload.product_name)
            IN  IF found = {}
                THEN /\ last' = [status |-> 404, resp |-> NoResp]
                     /\ fsales' = <<>> /\ fout' = NoForecast
                     /\ cargs' = NoArgs /\ cout' = NoCalc
                     /\ UNCHANGED forecast_log
                ELSE LET pid == CHOOSE i \in found : TRUE
                         prod == products[pid]
                         sales_series == _get_recent_sales(pid, Weeks)
                         f == Forecast(sales_series)
                         a == CalcArgs(prod, f.next_week)
                         c == Calc(a)
                         resp == MLResponse(pid, prod, f, c)
                     IN  /\ fsales' = sales_series /\ fout' = f
                         /\ cargs' = a /\ cout' = c
                         /\ forecast_log' = Append(forecast_log, LogRow(resp))
                         /\ last' = [status |-> 200, resp |-> resp]
    /\ UNCHANGED <<products, sales, sweep>>

Init == InitApi

Next == \E payload \in Payloads : forecast_and_reorder(payload)

Spec == Init /\ [][Next]_vars

-----------------------------------------------------------------------------
(* What the claims are stated against *)

Abs(x) == IF x < 0 THEN -x ELSE x

\* The window the forecast is taken over and its total
Window(s) == Min(3, Len(s))
WindowTotal(s) == Sum(SubSeq(s, Len(s) - Window(s) + 1, Len(s)))

\* The whole weeks nearest to d days, at least one: the n >= 1 with
\* |d/7 - n| < 1/2, or 1 when d/7 < 3/2
NearestWeeks(d) ==
    CHOOSE n \in 1..(MaxLead + 1) :
        \/ n = 1 /\ 2 * d < 21
        \/ n >= 2 /\ Abs(2 * d - 14 * n) < 7

\* The reorder point of the arguments a
PointOf(a) == a.fcst * NearestWeeks(a.lead) + a.ss

NonNegative(a) == a.stock >= 0 /\ a.fcst >= 0 /\ a.moq >= 0 /\ a.ss >= 0

\* The stored product and its columns with a default only in place of NULL
Stored == products[1]
StoredOr(x, d) == IF x = <<>> THEN d ELSE x[1]
StoredArgs(fcst) ==
    [stock |-> Stored.stock_on_hand, fcst |-> fcst,
     lead |-> StoredOr(Stored.lead_time_days, 7),
     moq |-> StoredOr(Stored.moq, 0),
     ss |-> StoredOr(Stored.safety_stock, 0)]

-----------------------------------------------------------------------------
(* C1 *)

\* C1 as stated: the forecast of every non-empty series of non-negative sales
\* is floor(mean(last min(3, len) elements) * 1.1), the buffered average
\* truncated, and is >= 0.
C1_ForecastIsTruncated ==
    (fout.set /\ Len(fsales) > 0) =>
        /\ fout.next_week = (11 * WindowTotal(fsales)) \div (10 * Window(fsales))
        /\ fout.next_week >= 0

\* C1 amended: the forecast of every non-empty series of non-negative sales is
\* mean(last min(3, len) elements) * 1.1 rounded to a nearest integer (within
\* 1/2 of it), so it is the truncated value or one more, and is >= 0.
C1_ForecastIsRounded ==
    (fout.set /\ Len(fsales) > 0) =>
        LET w == Window(fsales)
            total == WindowTotal(fsales)
        IN  /\ 2 * Abs(10 * w * fout.next_week - 11 * total) <= 10 * w
            /\ fout.next_week \in {(11 * total) \div (10 * w), (11 * total) \div (10 * w) + 1}
            /\ fout.next_week >= 0

\* A four-week series whose oldest week lies outside the window and whose
\* forecast is rounded up past the truncated value
C1_Witness ==
    /\ fout.set
    /\ Len(fsales) = 4
    /\ fsales[1] # fsales[2]
    /\ fout.next_week = (11 * WindowTotal(fsales)) \div (10 * Window(fsales)) + 1

-----------------------------------------------------------------------------
(* C2 *)

\* C2: for non-negative stock, forecast, MOQ and safety stock and every lead
\* time, with leadWeeks = max(1, lead/7 to the nearest week) and reorderPoint =
\* forecast * leadWeeks + safetyStock, _reorder_calc returns ("reorder",
\* max(MOQ, reorderPoint - stock)) exactly when stock < reorderPoint and
\* ("do_nothing", 0) otherwise.
C2_ReorderContract ==
    (cout.set /\ NonNegative(cargs)) =>
        LET rp == PointOf(cargs)
        IN  IF cargs.stock < rp
            THEN cout.action = "reorder" /\ cout.qty = Max(cargs.moq, rp - cargs.stock)
            ELSE cout.action = "do_nothing" /\ cout.qty = 0

\* A reorder over a lead time of more than a week and a half in which the MOQ
\* exceeds the gap
C2_Witness ==
    /\ cout.set /\ NonNegative(cargs)
    /\ cargs.lead >= 11 /\ cargs.fcst > 0
    /\ cargs.stock >= cargs.fcst + cargs.ss
    /\ cout.action = "reorder"
    /\ cout.qty = cargs.moq /\ cargs.moq > PointOf(cargs) - cargs.stock

-----------------------------------------------------------------------------
(* C3 *)

\* C3: whenever _reorder_calc is called, the quantity it returns is 0 with
\* "do_nothing" and at least the MOQ it was given with "reorder"; and in every
\* response of forecast_and_reorder reorder_qty is 0 with "do_nothing" and at
\* least the product's MOQ (0 when none is stored) with "reorder".
C3_QuantityBounds ==
    /\ cout.set =>
          /\ cout.action \in {"reorder", "do_nothing"}
          /\ cout.action = "do_nothing" => cout.qty = 0
          /\ cout.action = "reorder" => cout.qty >= cargs.moq
    /\ last.status = 200 =>
          /\ last.resp.action \in {"reorder", "do_nothing"}
          /\ last.resp.action = "do_nothing" => last.resp.reorder_qty = 0
          /\ last.resp.action = "reorder" =>
                last.resp.reorder_qty >= StoredOr(Stored.moq, 0)

\* A response that reorders exactly the stored MOQ, which exceeds the gap
C3_Witness ==
    /\ last.status = 200
    /\ last.resp.action = "reorder"
    /\ Stored.moq = <<2>>
    /\ last.resp.reorder_qty = 2
    /\ PointOf(cargs) - cargs.stock = 1

-----------------------------------------------------------------------------
(* C4 *)

\* C4 as stated, for the action: as stock rises from 0 past the reorder point
\* the action has changed exactly once.
C4_FlipsExactlyOnce ==
    (/\ cout.set /\ NonNegative(cargs) /\ cargs.lead > 0
     /\ sweep.start = 0
     /\ cargs.stock = MaxStock
     /\ PointOf(cargs) <= MaxStock) => sweep.flips = 1

\* C4 amended: with all else fixed, more stock never gets a greater quantity;
\* the action is "reorder" exactly below the reorder point, so as stock rises
\* from 0 it changes from "reorder" to "do_nothing" at most once - once, at
\* stock = reorderPoint, when reorderPoint > 0, and not at all when
\* reorderPoint <= 0 - and never changes back.
C4_MonotonicInStock ==
    /\ [](cout.set =>
            /\ cout.action = "reorder" <=> cargs.stock < PointOf(cargs)
            /\ sweep.flips <= 1
            /\ sweep.flips = 1 <=>
                  (sweep.start < PointOf(cargs) /\ PointOf(cargs) <= cargs.stock))
    /\ [][(cout.set /\ cout'.set) =>
            /\ cargs'.stock >= cargs.stock
            /\ cout'.qty <= cout.qty
            /\ cout.action = "do_nothing" => cout'.action = "do_nothing"
            /\ cout'.action # cout.action =>
                  (cargs.stock < PointOf(cargs) /\ PointOf(cargs) <= cargs'.stock)]_vars

\* A rise of the stock from 0 across a positive reorder point
C4_Witness ==
    /\ cout.set /\ NonNegative(cargs)
    /\ sweep.start = 0 /\ sweep.flips = 1
    /\ cargs.moq > 0
    /\ cout.action = "do_nothing"

-----------------------------------------------------------------------------
(* C5 *)

\* C5: the trend of a series of two or more weeks is "increasing" iff the last
\* week is above the one before it, "declining" iff it is below, and "stable"
\* otherwise; the trend of a shorter series is "stable"; and two series that
\* agree on their last two weeks get the same trend.
C5_TrendFromLastTwo ==
    /\ [](fout.set =>
            LET n == Len(fsales)
            IN  IF n < 2 THEN fout.trend = "stable"
                ELSE /\ fout.trend = "increasing" <=> fsales[n] > fsales[n - 1]
                     /\ fout.trend = "declining" <=> fsales[n] < fsales[n - 1]
                     /\ fout.trend = "stable" <=> fsales[n] = fsales[n - 1])
    /\ [][(/\ fout.set /\ fout'.set
            /\ Len(fsales) >= 2 /\ Len(fsales') >= 2
            /\ fsales'[Len(fsales')] = fsales[Len(fsales)]
            /\ fsales'[Len(fsales') - 1] = fsales[Len(fsales) - 1])
           => fout'.trend = fout.trend]_vars

\* A declining series of three or more weeks whose last week is above its first
C5_Witness ==
    /\ fout.set
    /\ Len(fsales) >= 3
    /\ fsales[Len(fsales)] < fsales[Len(fsales) - 1]
    /\ fsales[Len(fsales)] > fsales[1]
    /\ fout.trend = "declining"

-----------------------------------------------------------------------------
(* C6 *)

\* C6: for the empty series the forecaster returns 0 and "stable", and a
\* request for a product with no sales rows gets a response, not an error,
\* with next_week = 0 and trend = "stable".
C6_EmptySeries ==
    /\ (fout.set /\ fsales = <<>>) =>
          /\ fout.next_week = 0 /\ fout.trend = "stable"
          /\ last.status = 200
    /\ (last.status = 200 /\ sales[last.resp.product_id] = <<>>) =>
          /\ fout.set /\ fsales = <<>>
          /\ last.resp.next_week = 0 /\ last.resp.trend = "stable"

\* A response for the product while it has no sales rows
C6_Witness ==
    /\ last.status = 200
    /\ sales[last.resp.product_id] = <<>>
    /\ last.resp.next_week = 0 /\ last.resp.trend = "stable"

-----------------------------------------------------------------------------
(* C7 *)

NegativeStored ==
    \/ Stored.stock_on_hand < 0
    \/ Stored.lead_time_days # <<>> /\ Stored.lead_time_days[1] < 0
    \/ Stored.moq # <<>> /\ Stored.moq[1] < 0
    \/ Stored.safety_stock # <<>> /\ Stored.safety_stock[1] < 0

\* C7: when the stock, lead time, MOQ or safety stock stored for the product
\* is negative, forecast_and_reorder never calls _reorder_calc and never
\* returns a response with a computed action and quantity.
C7_NegativeRejected ==
    NegativeStored => (~cout.set /\ last.status # 200)

-----------------------------------------------------------------------------
(* C8 *)

\* C8: forecast_log is append-only: a request never changes or removes a row;
\* a request that returns a response appends exactly one row, holding the
\* response's product id, forecast, trend, action, quantity and confidence;
\* a request that ends in 400 or 404 leaves the log as it was.
C8_LogAppendOnly ==
    [][/\ Len(forecast_log') >= Len(forecast_log)
       /\ SubSeq(forecast_log', 1, Len(forecast_log)) = forecast_log
       /\ last'.status = 200 =>
             /\ Len(forecast_log') = Len(forecast_log) + 1
             /\ LET row == forecast_log'[Len(forecast_log')]
                    resp == last'.resp
                IN  /\ row.product_id = resp.product_id
                    /\ row.next_week = resp.next_week
                    /\ row.trend = resp.trend
                    /\ row.action = resp.action
                    /\ row.reorder_qty = resp.reorder_qty
                    /\ row.confidence = resp.confidence
       /\ last'.status \in {400, 404} => forecast_log' = forecast_log]_vars

\* A 404 after a response that reordered: the row written earlier is still the
\* only row of the log
C8_Witness ==
    /\ last.status = 404
    /\ Len(forecast_log) = 1
    /\ forecast_log[1].action = "reorder"
    /\ forecast_log[1].reorder_qty > 0

-----------------------------------------------------------------------------
(* C9 *)

\* C9: the action and quantity of every response are the reorder decision for
\* the stored lead_time_days, moq and safety_stock, with 7, 0 and 0 in place
\* of NULL only: a stored value, 0 included, is used as it is stored.
C9_StoredValuesUsed ==
    last.status = 200 =>
        LET a == StoredArgs(last.resp.next_week)
            rp == PointOf(a)
        IN  IF a.stock < rp
            THEN /\ last.resp.action = "reorder"
                 /\ last.resp.reorder_qty = Max(a.moq, rp - a.stock)
            ELSE /\ last.resp.action = "do_nothing"
                 /\ last.resp.reorder_qty = 0

\* A response that reorders for a product stored with a lead time of 0 days
\* and an MOQ of 0
C9_Witness ==
    /\ last.status = 200
    /\ Stored.lead_time_days = <<0>>
    /\ Stored.moq = <<0>>
    /\ last.resp.next_week > 0
    /\ last.resp.action = "reorder"

-----------------------------------------------------------------------------
(* C10 *)

\* C10: whenever _reorder_calc returns "reorder", for any integer arguments,
\* the quantity is strictly positive and stock + quantity >= reorderPoint,
\* with equality exactly when MOQ <= reorderPoint - stock.
C10_ReorderCoversShortfall ==
    (cout.set /\ cout.action = "reorder") =>
        LET rp == PointOf(cargs)
        IN  /\ cout.qty > 0
            /\ cargs.stock + cout.qty >= rp
            /\ cargs.stock + cout.qty = rp <=> cargs.moq <= rp - cargs.stock

\* A reorder with negative stock, MOQ and safety stock
C10_Witness ==
    /\ cout.set /\ cout.action = "reorder"
    /\ cargs.stock < 0 /\ cargs.moq < 0 /\ cargs.ss < 0
    /\ cargs.stock + cout.qty = PointOf(cargs)

====
